---- MODULE Spec2Model ----
(***************************************************************************)
(* A model of the squeak exchange engine (squeaknode/core/squeak_core.py)  *)
(* and of the peer registry (squeaknode/network/connection_manager.py).    *)
(*                                                                         *)
(* Spec    : the sale protocol. A seller runs create_offer / package_offer *)
(*           against its Lightning node, the wire carries the Offer (and   *)
(*           may alter it), the buyer runs unpack_offer / pay_offer.       *)
(* SpecCM  : the ConnectionManager, one action per public method.          *)
(***************************************************************************)
EXTENDS Integers, Sequences, FiniteSets, TLC

VARIABLES
    invoices,        \* the invoices registered at the seller's Lightning node
    sentOffers,      \* SentOffers returned by create_offer, with the call's arguments
    wire,            \* the Offer in flight from seller to buyer, if any
    receivedOffers,  \* the ReceivedOffer the buyer holds unpaid, if any
    last,            \* the last SqueakCore call: arguments, client calls, outcome
    peers,           \* ConnectionManager._peers, in insertion order
    peers_changed_callback,  \* ConnectionManager.peers_changed_callback
    registered,      \* history: peers added with success and not deleted since
    cmLast,          \* the last ConnectionManager call: arguments, outcome, observer calls
    settledLog,      \* the invoices settled at the seller's node, by settle_index
    sentOfferDb,     \* the invoices whose SentOffer the seller's storage holds
    stream,          \* the ReceivedPaymentsStream get_received_payments returned
    receivedPaymentsDb,  \* the received payments in the seller's storage, in insertion order
    verifier,        \* where the SentOffersVerifier worker stands
    stop_signal,     \* the owner of the worker has asked it to stop
    vLast,           \* the last SentOffersVerifier call: invoice, storage operations, outcome
    sessions,        \* the admin clients whose session is authenticated
    login_disabled,  \* app.config["LOGIN_DISABLED"]
    adminLast,       \* the last admin request and its response
    peers_lock,      \* ConnectionManager.peers_lock: the thread that holds it
    threads,         \* where each thread stands in a ConnectionManager call
    closing          \* closed peers whose handler has yet to call remove_peer

coreVars == <<invoices, sentOffers, wire, receivedOffers, last>>
cmVars   == <<peers, peers_changed_callback, registered, cmLast>>
threadVars == <<peers_lock, threads, closing>>
adminVars == <<sessions, login_disabled, adminLast>>
verifierVars == <<receivedPaymentsDb, verifier, stop_signal, vLast>>
settleVars == <<settledLog, sentOfferDb, stream,
                receivedPaymentsDb, verifier, stop_signal, vLast>>
vars     == <<invoices, sentOffers, wire, receivedOffers, last,
              peers, peers_changed_callback, registered, cmLast,
              settledLog, sentOfferDb, stream,
              receivedPaymentsDb, verifier, stop_signal, vLast,
              sessions, login_disabled, adminLast,
              peers_lock, threads, closing>>

-----------------------------------------------------------------------------
(* Bounds of the model.                                                    *)

\* Scalars are fixed-width big-endian strings of ScalarWidth digits in
\* base ByteBase (32 bytes in the program).
ByteBase == 2
\* The order of the scalar group (the secp256k1 order in the program).
CurveOrder == 3
\* Squeaks known to both sides.
NumSqueaks == 2
\* Invoices the seller's Lightning node takes.
MaxInvoices == 1
\* Version nonces the peers of the model draw from.
NumNonces == 1
\* Invoices of the seller's node that buyers may settle.
NumPayments == 2

-----------------------------------------------------------------------------
(* Values.                                                                 *)

\* Python's None, where a record may stand instead.
None == [none |-> TRUE]
EmptyBytes == <<>>

\* int.to_bytes(width, "big") / int.from_bytes(b, "big"), two digits wide.
int_to_bytes(n) == <<(n \div ByteBase) % ByteBase, n % ByteBase>>
int_from_bytes(b) == b[1] * ByteBase + b[2]

AllScalarBytes == { <<a, b>> : a \in 0..(ByteBase - 1), b \in 0..(ByteBase - 1) }
\* Scalars in range: 1 .. order-1, as the key and tweak generators draw them.
ValidScalars == { int_to_bytes(n) : n \in 1..(CurveOrder - 1) }

\* squeaknode.core.util.add_tweak / subtract_tweak / generate_tweak.
add_tweak(n, tweak) ==
    int_to_bytes((int_from_bytes(n) + int_from_bytes(tweak)) % CurveOrder)
subtract_tweak(n, tweak) ==
    int_to_bytes((int_from_bytes(n) - int_from_bytes(tweak)) % CurveOrder)
generate_tweak == ValidScalars

\* squeak.core.elliptic.payment_point_bytes_from_scalar_bytes: s*G, which is
\* one-to-one on the scalars modulo the group order.
payment_point_bytes_from_scalar_bytes(s) ==
    <<"point", int_from_bytes(s) % CurveOrder>>

\* SHA256, as the Lightning node computes the payment hash of a preimage.
sha256(b) == <<"sha256", b>>
\* bytes.hex() / bytes.fromhex().
hex(b) == <<"hex", b>>
fromhex(h) == h[2]

\* The squeaks: squeak i is locked by the secret key int_to_bytes(i).
SqueakIds == 1..NumSqueaks
SecretKeyOf(id) == int_to_bytes(id)
Squeak(id) ==
    [id |-> id,
     paymentPoint |-> payment_point_bytes_from_scalar_bytes(SecretKeyOf(id))]
Squeaks == { Squeak(id) : id \in SqueakIds }
\* squeaknode.core.util.get_hash: the digest of the squeak's serialization.
get_hash(squeak) == <<"squeak_hash", squeak.id>>
SqueakHashes == { get_hash(s) : s \in Squeaks }

PeerAddresses == { [host |-> "buyer.example", port |-> 8555] }
Prices == { 1000 }
NodePubkey == "02seller"
\* What the caller of package_offer passes as lnd_external_address.
ExternalAddresses == { None, [host |-> "ln.example", port |-> 9735] }
\* What get_info().uris may hold.
UriLists ==
    { <<>>,
      << [pubkey |-> NodePubkey, host |-> "10.0.0.1", port_str |-> "9735"] >>,
      << [pubkey |-> NodePubkey, host |-> "10.0.0.1", port_str |-> "9735"],
         [pubkey |-> NodePubkey, host |-> "onion.example", port_str |-> "9736"] >> }
PortOf(port_str) == IF port_str = "9735" THEN 9735 ELSE 9736

\* An exception: its kind and the values its message is formatted from.
NoError == [kind |-> "none", detail |-> <<>>]
Error(kind, detail) == [kind |-> kind, detail |-> detail]
RpcError == Error("RpcError", <<>>)

-----------------------------------------------------------------------------
(* The Lightning client, as the core consumes it.                          *)

InvoiceExpiry == 3600

\* The payment request of an invoice, and decode_pay_req of it.
encode_pay_req(r_hash, amount_msat, timestamp) ==
    <<"lnbc", [payment_hash |-> hex(r_hash), num_msat |-> amount_msat,
               destination |-> NodePubkey, timestamp |-> timestamp,
               expiry |-> InvoiceExpiry]>>
decode_pay_req(payment_request) == payment_request[2]

\* The invoice add_invoice(preimage, amount_msat) registers: the preimage is
\* the caller's, the payment hash is its SHA256.
NewInvoice(preimage, amount_msat) ==
    LET r_hash == sha256(preimage)
        creation_date == Cardinality(invoices) + 1
    IN [r_preimage |-> preimage,
        r_hash |-> r_hash,
        value_msat |-> amount_msat,
        payment_request |-> encode_pay_req(r_hash, amount_msat, creation_date),
        creation_date |-> creation_date,
        expiry |-> InvoiceExpiry,
        settled |-> FALSE]

\* What pay_invoice_sync(payment_request) may answer: the preimage of the
\* invoice with the request's payment hash, when the node holds it open, or
\* an empty preimage and an error.
PaymentErrors == { "no_route", "invoice expired" }
pay_invoice_sync(payment_request) ==
    LET h == fromhex(decode_pay_req(payment_request).payment_hash)
    IN { [payment_preimage |-> i.r_preimage, payment_error |-> ""] :
            i \in { j \in invoices : j.r_hash = h /\ ~j.settled } }
       \cup
       { [payment_preimage |-> EmptyBytes, payment_error |-> e] :
            e \in PaymentErrors }

-----------------------------------------------------------------------------
(* SqueakCore.                                                             *)

Outcome(error, result, calls) ==
    [error |-> error, result |-> result, calls |-> calls]

\* The SentOffer create_offer returns for the invoice add_invoice registered.
SentOfferRecord(squeak_hash, invoice, preimage, nonce, price_msat, peer_address) ==
    [sent_offer_id |-> None,
     squeak_hash |-> squeak_hash,
     payment_hash |-> invoice.r_hash,
     secret_key |-> preimage,
     nonce |-> nonce,
     price_msat |-> price_msat,
     payment_request |-> invoice.payment_request,
     invoice_time |-> invoice.creation_date,
     invoice_expiry |-> invoice.expiry,
     peer_address |-> peer_address]

\* The client calls of create_offer on the invoice `invoice`, with the call
\* that fails, if one does: add_invoice registers the invoice (the node
\* refuses a payment hash it already holds), lookup_invoice reads it back.
CreateOfferCalls(invoice, fault, sent_offer) ==
    IF fault = "add_invoice" \/ \E i \in invoices : i.r_hash = invoice.r_hash
    THEN [out |-> Outcome(RpcError, <<>>, <<"add_invoice">>),
          invoices |-> invoices]
    ELSE IF fault = "lookup_invoice"
    THEN [out |-> Outcome(RpcError, <<>>, <<"add_invoice", "lookup_invoice">>),
          invoices |-> invoices \cup {invoice}]
    ELSE [out |-> Outcome(NoError, <<sent_offer>>,
                          <<"add_invoice", "lookup_invoice">>),
          invoices |-> invoices \cup {invoice}]

\* create_offer with the invoice opened on the secret key instead of on the
\* tweaked preimage.
create_offer_InvoiceOnKey(squeak, secret_key, peer_address, price_msat, nonce, fault) ==
    LET preimage == add_tweak(secret_key, nonce)
        invoice == NewInvoice(secret_key, price_msat)
    IN CreateOfferCalls(invoice, fault,
           SentOfferRecord(get_hash(squeak), invoice, preimage, nonce,
                           price_msat, peer_address))

\* create_offer, with the nonce generate_tweak() drew and the client call
\* that fails, if one does.
create_offer(squeak, secret_key, peer_address, price_msat, nonce, fault) ==
    LET squeak_hash == get_hash(squeak)
        preimage == add_tweak(secret_key, nonce)
        invoice == NewInvoice(preimage, price_msat)
    IN CreateOfferCalls(invoice, fault,
           SentOfferRecord(squeak_hash, invoice, preimage, nonce,
                           price_msat, peer_address))

\* get_lnd_external_address going through the whole list, so that the last
\* uri decides.
get_lnd_external_address_LastUri(uris) ==
    IF Len(uris) > 0
    THEN [host |-> uris[Len(uris)].host, port |-> PortOf(uris[Len(uris)].port_str)]
    ELSE None

\* get_lnd_external_address, given get_info().uris: the first uri decides.
get_lnd_external_address(uris) ==
    IF Len(uris) > 0
    THEN [host |-> uris[1].host, port |-> PortOf(uris[1].port_str)]
    ELSE None

\* The address package_offer uses, and the client calls it takes.
PackageAddress(lnd_external_address, uris) ==
    IF lnd_external_address = None
    THEN get_lnd_external_address(uris)
    ELSE lnd_external_address
PackageCalls(lnd_external_address) ==
    IF lnd_external_address = None THEN <<"get_info">> ELSE <<>>

\* package_offer sending the SentOffer's secret_key field along.
package_offer_LeakKey(sent_offer, lnd_external_address, uris) ==
    LET address == PackageAddress(lnd_external_address, uris)
    IN Outcome(NoError,
               << [squeak_hash |-> sent_offer.squeak_hash,
                   nonce |-> sent_offer.nonce,
                   secret_key |-> sent_offer.secret_key,
                   payment_request |-> sent_offer.payment_request,
                   host |-> IF address # None THEN address.host ELSE "",
                   port |-> IF address # None THEN address.port ELSE 0] >>,
               PackageCalls(lnd_external_address))

\* package_offer, given get_info().uris should the client be asked.
package_offer(sent_offer, lnd_external_address, uris) ==
    LET address == PackageAddress(lnd_external_address, uris)
    IN Outcome(NoError,
               << [squeak_hash |-> sent_offer.squeak_hash,
                   nonce |-> sent_offer.nonce,
                   payment_request |-> sent_offer.payment_request,
                   host |-> IF address # None THEN address.host ELSE "",
                   port |-> IF address # None THEN address.port ELSE 0] >>,
               PackageCalls(lnd_external_address))

\* The ReceivedOffer with the peer's port taken along with the peer's host
\* when the offer names no host.
ReceivedOfferRecord_PeerPort(squeak, offer, peer_address) ==
    LET pay_req == decode_pay_req(offer.payment_request)
    IN [received_offer_id |-> None,
        squeak_hash |-> get_hash(squeak),
        price_msat |-> pay_req.num_msat,
        payment_hash |-> fromhex(pay_req.payment_hash),
        nonce |-> offer.nonce,
        payment_point |-> squeak.paymentPoint,
        invoice_timestamp |-> pay_req.timestamp,
        invoice_expiry |-> pay_req.expiry,
        payment_request |-> offer.payment_request,
        destination |-> pay_req.destination,
        lightning_address |->
            [host |-> IF offer.host # "" THEN offer.host ELSE peer_address.host,
             port |-> IF offer.host # "" THEN offer.port ELSE peer_address.port],
        peer_address |-> peer_address]

\* The ReceivedOffer unpack_offer returns.
ReceivedOfferRecord(squeak, offer, peer_address) ==
    LET pay_req == decode_pay_req(offer.payment_request)
    IN [received_offer_id |-> None,
        squeak_hash |-> get_hash(squeak),
        price_msat |-> pay_req.num_msat,
        payment_hash |-> fromhex(pay_req.payment_hash),
        nonce |-> offer.nonce,
        payment_point |-> squeak.paymentPoint,
        invoice_timestamp |-> pay_req.timestamp,
        invoice_expiry |-> pay_req.expiry,
        payment_request |-> offer.payment_request,
        destination |-> pay_req.destination,
        lightning_address |->
            [host |-> IF offer.host # "" THEN offer.host ELSE peer_address.host,
             port |-> offer.port],
        peer_address |-> peer_address]

HashMismatch(squeak, offer) ==
    Error("OfferHashMismatch", <<offer.squeak_hash, get_hash(squeak)>>)

\* unpack_offer decoding the payment request before it compares the hashes.
unpack_offer_DecodeFirst(squeak, offer, peer_address) ==
    IF get_hash(squeak) # offer.squeak_hash
    THEN Outcome(HashMismatch(squeak, offer), <<>>, <<"decode_pay_req">>)
    ELSE Outcome(NoError, <<ReceivedOfferRecord(squeak, offer, peer_address)>>,
                 <<"decode_pay_req">>)

\* unpack_offer.
unpack_offer(squeak, offer, peer_address) ==
    LET squeak_hash == get_hash(squeak)
    IN IF squeak_hash # offer.squeak_hash
       THEN Outcome(HashMismatch(squeak, offer), <<>>, <<>>)
       ELSE Outcome(NoError,
                    <<ReceivedOfferRecord(squeak, offer, peer_address)>>,
                    <<"decode_pay_req">>)

\* The SentPayment pay_offer returns.
SentPaymentRecord(received_offer, secret_key, valid) ==
    [sent_payment_id |-> None,
     created_time_ms |-> None,
     peer_address |-> [host |-> received_offer.peer_address.host,
                       port |-> received_offer.peer_address.port],
     squeak_hash |-> received_offer.squeak_hash,
     payment_hash |-> received_offer.payment_hash,
     secret_key |-> secret_key,
     price_msat |-> received_offer.price_msat,
     node_pubkey |-> received_offer.destination,
     valid |-> valid]

PaymentFailed(payment) == Error("PaymentFailed", <<payment.payment_error>>)

\* pay_offer taking the preimage itself for the secret key.
pay_offer_NoTweak(received_offer, payment) ==
    LET preimage == payment.payment_preimage
        valid == payment_point_bytes_from_scalar_bytes(preimage)
                     = received_offer.payment_point
    IN IF preimage = EmptyBytes
       THEN Outcome(PaymentFailed(payment), <<>>, <<"pay_invoice_sync">>)
       ELSE Outcome(NoError,
                    <<SentPaymentRecord(received_offer, preimage, valid)>>,
                    <<"pay_invoice_sync">>)

\* pay_offer raising a failure that does not carry payment_error.
pay_offer_DropError(received_offer, payment) ==
    LET preimage == payment.payment_preimage
        secret_key == subtract_tweak(preimage, received_offer.nonce)
        valid == payment_point_bytes_from_scalar_bytes(secret_key)
                     = received_offer.payment_point
    IN IF preimage = EmptyBytes
       THEN Outcome(Error("PaymentFailed", <<>>), <<>>, <<"pay_invoice_sync">>)
       ELSE Outcome(NoError,
                    <<SentPaymentRecord(received_offer, secret_key, valid)>>,
                    <<"pay_invoice_sync">>)

\* pay_offer refusing to return the record of a payment whose key is wrong.
pay_offer_RejectInvalid(received_offer, payment) ==
    LET preimage == payment.payment_preimage
        secret_key == subtract_tweak(preimage, received_offer.nonce)
        valid == payment_point_bytes_from_scalar_bytes(secret_key)
                     = received_offer.payment_point
    IN IF preimage = EmptyBytes
       THEN Outcome(PaymentFailed(payment), <<>>, <<"pay_invoice_sync">>)
       ELSE IF ~valid
       THEN Outcome(Error("InvalidKey", <<>>), <<>>, <<"pay_invoice_sync">>)
       ELSE Outcome(NoError,
                    <<SentPaymentRecord(received_offer, secret_key, valid)>>,
                    <<"pay_invoice_sync">>)

\* pay_offer, given what pay_invoice_sync answered.
pay_offer(received_offer, payment) ==
    LET preimage == payment.payment_preimage
        nonce == received_offer.nonce
        secret_key == subtract_tweak(preimage, nonce)
        point == payment_point_bytes_from_scalar_bytes(secret_key)
        valid == point = received_offer.payment_point
    IN IF preimage = EmptyBytes
       THEN Outcome(PaymentFailed(payment), <<>>, <<"pay_invoice_sync">>)
       ELSE Outcome(NoError,
                    <<SentPaymentRecord(received_offer, secret_key, valid)>>,
                    <<"pay_invoice_sync">>)

\* The profiles an author may pass: a signing profile holds its private
\* key, a contact profile holds None.
Profiles ==
    { [profile_id |-> 1, private_key |-> [wif |-> "signing-key"]],
      [profile_id |-> 2, private_key |-> None] }
Contents == { "hello" }
\* What get_best_block_info() answers: the best block, or None when the
\* Bitcoin RPC fails and the client raises.
BlockInfos == { [block_height |-> 700000, block_hash |-> <<"block", 700000>>] }
BestBlockAnswers == { None } \cup BlockInfos
Timestamps == { 1600000000 }

\* squeak.core.MakeSqueakFromStr: the squeak, signed with the key and bound
\* to the block and the time, and the secret key that locks its content.
MakeSqueakFromStr(signing_key, content_str, block_height, block_hash, timestamp, replyto_hash, id) ==
    << [id |-> id,
        paymentPoint |-> payment_point_bytes_from_scalar_bytes(SecretKeyOf(id)),
        signed_by |-> signing_key,
        nBlockHeight |-> block_height,
        hashBlock |-> block_hash,
        nTime |-> timestamp,
        hashReplySqk |-> replyto_hash],
       SecretKeyOf(id) >>

ProfileNotSigning ==
    Error("ProfileNotSigning", <<"Can't make squeak with a contact profile.">>)
ChainUnavailable == Error("ChainUnavailable", <<>>)

\* make_squeak asking for the best block before it looks at the profile.
make_squeak_QueryFirst(signing_profile, content_str, replyto_hash, block_info, timestamp, id) ==
    IF block_info = None
    THEN Outcome(ChainUnavailable, <<>>, <<"get_best_block_info">>)
    ELSE IF signing_profile.private_key = None
    THEN Outcome(ProfileNotSigning, <<>>, <<"get_best_block_info">>)
    ELSE Outcome(NoError,
                 MakeSqueakFromStr(signing_profile.private_key, content_str,
                                   block_info.block_height,
                                   block_info.block_hash, timestamp,
                                   replyto_hash, id),
                 <<"get_best_block_info">>)

\* make_squeak, with what get_best_block_info() answers, the clock's reading
\* and the secret key the squeak library draws.
make_squeak(signing_profile, content_str, replyto_hash, block_info, timestamp, id) ==
    IF signing_profile.private_key = None
    THEN Outcome(ProfileNotSigning, <<>>, <<>>)
    ELSE IF block_info = None
    THEN Outcome(ChainUnavailable, <<>>, <<"get_best_block_info">>)
    ELSE Outcome(NoError,
                 MakeSqueakFromStr(signing_profile.private_key, content_str,
                                   block_info.block_height,
                                   block_info.block_hash, timestamp,
                                   replyto_hash, id),
                 <<"get_best_block_info">>)

-----------------------------------------------------------------------------
(* The sale protocol: one action per SqueakCore call.                      *)

Call(op, args, out) == [op |-> op, args |-> args, out |-> out]

CoreInit ==
    /\ invoices = {}
    /\ sentOffers = {}
    /\ wire = {}
    /\ receivedOffers = {}
    /\ last = Call("init", <<>>, Outcome(NoError, <<>>, <<>>))

\* An author makes a squeak. It touches no invoice and no offer.
MakeSqueak ==
    /\ \E signing_profile \in Profiles, content_str \in Contents,
          is_reply \in BOOLEAN, replied_to \in { get_hash(Squeak(1)) },
          block_info \in BestBlockAnswers, timestamp \in Timestamps,
          id \in SqueakIds :
          LET replyto_hash == IF is_reply THEN replied_to ELSE None
          IN last' = Call("make_squeak",
                          [signing_profile |-> signing_profile,
                           content_str |-> content_str,
                           replyto_hash |-> replyto_hash],
                          make_squeak(signing_profile, content_str,
                                      replyto_hash, block_info, timestamp, id))
    /\ UNCHANGED <<invoices, sentOffers, wire, receivedOffers>>
    /\ UNCHANGED cmVars
    /\ UNCHANGED adminVars
    /\ UNCHANGED threadVars
    /\ UNCHANGED settleVars

\* The seller offers a squeak it holds: secret_key is the key of that squeak
\* ("secret_key: The secret key to the squeak").
CreateOffer ==
    /\ Cardinality(invoices) < MaxInvoices
    /\ \E squeak \in Squeaks, peer_address \in PeerAddresses, price_msat \in Prices,
          nonce \in generate_tweak,
          fault \in {"none", "add_invoice", "lookup_invoice"} :
          LET secret_key == SecretKeyOf(squeak.id)
              r == create_offer(squeak, secret_key, peer_address, price_msat,
                                nonce, fault)
          IN /\ invoices' = r.invoices
             /\ sentOffers' =
                    IF r.out.error = NoError
                    THEN sentOffers \cup
                         { [offer |-> r.out.result[1], squeak |-> squeak,
                            secret_key |-> secret_key] }
                    ELSE sentOffers
             /\ last' = Call("create_offer",
                             [squeak |-> squeak, secret_key |-> secret_key,
                              peer_address |-> peer_address,
                              price_msat |-> price_msat, nonce |-> nonce],
                             r.out)
    /\ UNCHANGED <<wire, receivedOffers>>
    /\ UNCHANGED cmVars
    /\ UNCHANGED adminVars
    /\ UNCHANGED threadVars
    /\ UNCHANGED settleVars

\* The seller packages a SentOffer and sends the Offer. The buyer asks for
\* one offer at a time: an Offer is sent when none is under way.
PackageOffer ==
    /\ wire = {}
    /\ receivedOffers = {}
    /\ \E so \in sentOffers, lnd_external_address \in ExternalAddresses :
       \E uris \in IF lnd_external_address = None THEN UriLists ELSE {<<>>} :
          LET out == package_offer(so.offer, lnd_external_address, uris)
          IN /\ wire' = wire \cup {out.result[1]}
             /\ last' = Call("package_offer",
                             [sent_offer |-> so.offer,
                              lnd_external_address |-> lnd_external_address,
                              uris |-> uris],
                             out)
    /\ UNCHANGED <<invoices, sentOffers, receivedOffers>>
    /\ UNCHANGED cmVars
    /\ UNCHANGED adminVars
    /\ UNCHANGED threadVars
    /\ UNCHANGED settleVars

\* The wire is not trusted: an Offer may arrive with a field altered.
Tamper ==
    /\ \E offer \in wire :
          \E altered \in
                { [offer EXCEPT !.squeak_hash = h] : h \in SqueakHashes }
                \cup { [offer EXCEPT !.nonce = n] : n \in AllScalarBytes }
                \cup { [offer EXCEPT !.payment_request = i.payment_request] :
                          i \in invoices } :
             /\ altered # offer
             /\ wire' = (wire \ {offer}) \cup {altered}
    /\ UNCHANGED <<invoices, sentOffers, receivedOffers, last>>
    /\ UNCHANGED cmVars
    /\ UNCHANGED adminVars
    /\ UNCHANGED threadVars
    /\ UNCHANGED settleVars

\* The buyer unpacks an Offer that arrived, for a squeak it holds.
UnpackOffer ==
    /\ \E offer \in wire, squeak \in Squeaks, peer_address \in PeerAddresses :
          LET out == unpack_offer(squeak, offer, peer_address)
          IN /\ wire' = wire \ {offer}
             /\ receivedOffers' =
                    IF out.error = NoError
                    THEN receivedOffers \cup {out.result[1]}
                    ELSE receivedOffers
             /\ last' = Call("unpack_offer",
                             [squeak |-> squeak, offer |-> offer,
                              peer_address |-> peer_address],
                             out)
    /\ UNCHANGED <<invoices, sentOffers>>
    /\ UNCHANGED cmVars
    /\ UNCHANGED adminVars
    /\ UNCHANGED threadVars
    /\ UNCHANGED settleVars

\* The buyer pays a ReceivedOffer; a payment that goes through settles the
\* invoice at the seller's node.
PayOffer ==
    /\ \E received_offer \in receivedOffers :
          \E payment \in pay_invoice_sync(received_offer.payment_request) :
             LET out == pay_offer(received_offer, payment)
                 paid == payment.payment_preimage # EmptyBytes
             IN /\ invoices' =
                       IF paid
                       THEN { IF i.r_hash = received_offer.payment_hash
                              THEN [i EXCEPT !.settled = TRUE] ELSE i :
                              i \in invoices }
                       ELSE invoices
                /\ receivedOffers' =
                       IF paid THEN receivedOffers \ {received_offer}
                       ELSE receivedOffers
                /\ last' = Call("pay_offer",
                                [received_offer |-> received_offer,
                                 payment |-> payment],
                                out)
    /\ UNCHANGED <<sentOffers, wire>>
    /\ UNCHANGED cmVars
    /\ UNCHANGED adminVars
    /\ UNCHANGED threadVars
    /\ UNCHANGED settleVars

CoreNext ==
    \/ CreateOffer
    \/ PackageOffer
    \/ Tamper
    \/ UnpackOffer
    \/ PayOffer

-----------------------------------------------------------------------------
(* ConnectionManager.                                                      *)

Addresses == { [host |-> "10.0.0.2", port |-> 8555],
               [host |-> "10.0.0.3", port |-> 8555] }
Nonces == 1..NumNonces
\* A peer as add_peer and remove_peer read it: its address, the version it
\* sent (None before it sent one) and the nonce of the version it received.
PeerObjects ==
    [address : Addresses,
     local_version : {None} \cup [nNonce : Nonces],
     remote_version : Nonces]
Callbacks == { [name |-> "observer"] }

Range(seq) == { seq[i] : i \in 1..Len(seq) }

\* The peers property: list(self._peers.values()).
peers_list == peers

has_connection(address) == \E i \in 1..Len(peers) : peers[i].address = address

get_peer(address) ==
    IF has_connection(address)
    THEN (CHOOSE p \in Range(peers) : p.address = address)
    ELSE None

is_duplicate_nonce(peer) ==
    \E i \in 1..Len(peers_list) :
        /\ peers_list[i].local_version # None
        /\ peer.remote_version = peers_list[i].local_version.nNonce

\* on_peers_changed over the map `ps`: with an observer registered it calls
\* self.get_peers(), which ConnectionManager does not define, so the call
\* raises AttributeError before the observer is reached.
on_peers_changed(ps) ==
    IF peers_changed_callback # None
    THEN [error |-> Error("AttributeError", <<"get_peers">>), notified |-> <<>>]
    ELSE [error |-> NoError, notified |-> <<>>]

\* add_peer storing the peer before it looks for a duplicate nonce.
add_peer_InsertBeforeCheck(peer) ==
    IF has_connection(peer.address)
    THEN [peers |-> peers, error |-> Error("DuplicatePeerError", <<>>),
          notified |-> <<>>, changed |-> 0]
    ELSE IF is_duplicate_nonce(peer)
    THEN [peers |-> Append(peers, peer),
          error |-> Error("DuplicateNonceError", <<>>), notified |-> <<>>,
          changed |-> 0]
    ELSE LET ps == Append(peers, peer)
             changed == on_peers_changed(ps)
         IN [peers |-> ps, error |-> changed.error,
             notified |-> changed.notified, changed |-> 1]

\* add_peer looking up the address before the nonce.
add_peer_AddressFirst(peer) ==
    IF has_connection(peer.address)
    THEN [peers |-> peers, error |-> Error("DuplicatePeerError", <<>>),
          notified |-> <<>>, changed |-> 0]
    ELSE IF is_duplicate_nonce(peer)
    THEN [peers |-> peers, error |-> Error("DuplicateNonceError", <<>>),
          notified |-> <<>>, changed |-> 0]
    ELSE LET ps == Append(peers, peer)
             changed == on_peers_changed(ps)
         IN [peers |-> ps, error |-> changed.error,
             notified |-> changed.notified, changed |-> 1]

\* add_peer: the map it leaves, the exception it raises, the observer calls.
add_peer(peer) ==
    IF is_duplicate_nonce(peer)
    THEN [peers |-> peers, error |-> Error("DuplicateNonceError", <<>>),
          notified |-> <<>>, changed |-> 0]
    ELSE IF has_connection(peer.address)
    THEN [peers |-> peers, error |-> Error("DuplicatePeerError", <<>>),
          notified |-> <<>>, changed |-> 0]
    ELSE LET ps == Append(peers, peer)
             changed == on_peers_changed(ps)
         IN [peers |-> ps, error |-> changed.error,
             notified |-> changed.notified, changed |-> 1]

\* remove_peer calling on_peers_changed also when the peer is missing.
remove_peer_NotifyOnMissing(peer) ==
    IF ~has_connection(peer.address)
    THEN [peers |-> peers, error |-> Error("MissingPeerError", <<>>),
          notified |-> on_peers_changed(peers).notified, changed |-> 1]
    ELSE LET ps == SelectSeq(peers, LAMBDA q : q.address # peer.address)
             changed == on_peers_changed(ps)
         IN [peers |-> ps, error |-> changed.error,
             notified |-> changed.notified, changed |-> 1]

\* remove_peer: deletes the entry under peer.address. `changed` counts the
\* calls of on_peers_changed.
remove_peer(peer) ==
    IF ~has_connection(peer.address)
    THEN [peers |-> peers, error |-> Error("MissingPeerError", <<>>),
          notified |-> <<>>, changed |-> 0]
    ELSE LET ps == SelectSeq(peers, LAMBDA q : q.address # peer.address)
             changed == on_peers_changed(ps)
         IN [peers |-> ps, error |-> changed.error,
             notified |-> changed.notified, changed |-> 1]

\* stop_connection also deleting the entry of the peer it closed.
stop_connection_AndRemove(address) ==
    LET peer == get_peer(address)
    IN [peers |-> SelectSeq(peers, LAMBDA q : q.address # address),
        closed |-> IF peer # None THEN <<peer>> ELSE <<>>]

\* stop_connection: the map it leaves and the peers it calls close() on.
stop_connection(address) ==
    LET peer == get_peer(address)
    IN [peers |-> peers,
        closed |-> IF peer # None THEN <<peer>> ELSE <<>>]

\* stop_all_connections: close() on each peer of the peers property, in order.
stop_all_connections ==
    [peers |-> peers, closed |-> peers_list]

CMCall(op, peer, before, r) ==
    [op |-> op, peer |-> peer, before |-> before, error |-> r.error,
     notified |-> r.notified, changed |-> r.changed, closed |-> <<>>]

CMInit ==
    /\ peers = <<>>
    /\ peers_changed_callback = None
    /\ registered = {}
    /\ cmLast = [op |-> "init", peer |-> None, before |-> <<>>,
                 error |-> NoError, notified |-> <<>>, changed |-> 0,
                 closed |-> <<>>]

ListenPeersChanged ==
    /\ \E callback \in Callbacks :
          /\ peers_changed_callback' = callback
          /\ cmLast' = [op |-> "listen_peers_changed", peer |-> None,
                        before |-> peers, error |-> NoError,
                        notified |-> <<>>, changed |-> 0, closed |-> <<>>]
    /\ UNCHANGED <<peers, registered>>
    /\ UNCHANGED coreVars
    /\ UNCHANGED settleVars
    /\ UNCHANGED adminVars
    /\ UNCHANGED threadVars

\* registered follows what the calls report: a peer enters it when add_peer
\* returns normally and leaves it when a remove_peer for its address does.
AddPeer ==
    /\ \E peer \in PeerObjects :
          LET r == add_peer(peer)
          IN /\ peers' = r.peers
             /\ registered' = IF r.error = NoError
                              THEN registered \cup {peer}
                              ELSE registered
             /\ cmLast' = CMCall("add_peer", peer, peers, r)
    /\ UNCHANGED peers_changed_callback
    /\ UNCHANGED coreVars
    /\ UNCHANGED settleVars
    /\ UNCHANGED adminVars
    /\ UNCHANGED threadVars

RemovePeer ==
    /\ \E peer \in PeerObjects :
          LET r == remove_peer(peer)
          IN /\ peers' = r.peers
             /\ registered' = IF r.error = NoError
                              THEN { q \in registered : q.address # peer.address }
                              ELSE registered
             /\ cmLast' = CMCall("remove_peer", peer, peers, r)
    /\ UNCHANGED peers_changed_callback
    /\ UNCHANGED coreVars
    /\ UNCHANGED settleVars
    /\ UNCHANGED adminVars
    /\ UNCHANGED threadVars

\* close() ends the peer's connection; the entry leaves the map when the
\* peer's connection handler later calls remove_peer (RemovePeer).
StopConnection ==
    /\ \E address \in Addresses :
          LET r == stop_connection(address)
          IN /\ peers' = r.peers
             /\ cmLast' = [op |-> "stop_connection", peer |-> address,
                           before |-> peers, error |-> NoError,
                           notified |-> <<>>, changed |-> 0,
                           closed |-> r.closed]
    /\ UNCHANGED <<peers_changed_callback, registered>>
    /\ UNCHANGED coreVars
    /\ UNCHANGED settleVars
    /\ UNCHANGED adminVars
    /\ UNCHANGED threadVars

StopAllConnections ==
    /\ LET r == stop_all_connections
       IN /\ peers' = r.peers
          /\ cmLast' = [op |-> "stop_all_connections", peer |-> None,
                        before |-> peers, error |-> NoError,
                        notified |-> <<>>, changed |-> 0,
                        closed |-> r.closed]
    /\ UNCHANGED <<peers_changed_callback, registered>>
    /\ UNCHANGED coreVars
    /\ UNCHANGED settleVars
    /\ UNCHANGED adminVars
    /\ UNCHANGED threadVars

CMNext ==
    \/ ListenPeersChanged
    \/ AddPeer
    \/ RemovePeer
    \/ StopConnection
    \/ StopAllConnections

-----------------------------------------------------------------------------
(* Settlements at the seller: the invoice stream of the Lightning node and *)
(* SqueakCore.get_received_payments.                                       *)

PaymentIds == 1..NumPayments
\* The payment hash of the seller's invoice i.
PaymentHashOf(i) == sha256(<<i>>)
\* The SentOffer the seller's storage holds for invoice i.
StoredSentOffer(i) ==
    [squeak_hash |-> get_hash(Squeak(((i - 1) % NumSqueaks) + 1)),
     payment_hash |-> PaymentHashOf(i),
     price_msat |-> 1000 * i,
     peer_address |-> [host |-> "buyer.example", port |-> 8555]]

\* An Invoice message of the stream: settle_index is 0 until it is settled.
Invoice(i, settle_index) ==
    [r_hash |-> PaymentHashOf(i),
     settled |-> settle_index > 0,
     settle_index |-> settle_index]
OpenPaymentIds == { i \in PaymentIds : \A k \in 1..Len(settledLog) : settledLog[k] # i }

\* What the next read of a subscribe_invoices stream may give, `cursor`
\* being the settle_index of the last settled invoice it gave (at first the
\* settle_index it was subscribed with): the settled invoice that follows,
\* an invoice that is not settled yet, the end of the stream, a transport
\* error; once cancelled, the CANCELLED status.
InvoiceDelivery(i, settle_index) ==
    [kind |-> "invoice", invoice |-> Invoice(i, settle_index), code |-> ""]
RpcErrorDelivery(code) == [kind |-> "RpcError", invoice |-> None, code |-> code]
EndOfStream == [kind |-> "end", invoice |-> None, code |-> ""]
NoDelivery == [kind |-> "none", invoice |-> None, code |-> ""]
TransportErrorCodes == { "UNAVAILABLE", "DEADLINE_EXCEEDED" }
subscribe_invoices(cursor, cancelled) ==
    IF cancelled
    THEN { RpcErrorDelivery("CANCELLED") }
    ELSE { InvoiceDelivery(settledLog[k], k) :
              k \in { j \in 1..Len(settledLog) : j = cursor + 1 } }
         \cup { InvoiceDelivery(i, 0) : i \in OpenPaymentIds }
         \cup { RpcErrorDelivery(code) : code \in TransportErrorCodes }
         \cup { EndOfStream }

\* get_sent_offer_fn as the seller passes it: the stored SentOffer with that
\* payment hash, None when storage has none.
get_sent_offer_fn(payment_hash) ==
    IF \E i \in sentOfferDb : PaymentHashOf(i) = payment_hash
    THEN StoredSentOffer(CHOOSE i \in sentOfferDb : PaymentHashOf(i) = payment_hash)
    ELSE None

ReceivedPaymentRecord(sent_offer, settle_index) ==
    [received_payment_id |-> None,
     created_time_ms |-> None,
     squeak_hash |-> sent_offer.squeak_hash,
     payment_hash |-> sent_offer.payment_hash,
     price_msat |-> sent_offer.price_msat,
     settle_index |-> settle_index,
     peer_address |-> sent_offer.peer_address]

InvoiceSubscriptionError == Error("InvoiceSubscriptionError", <<>>)

\* The generator's step: what it yields and how it goes on.
StreamStep(status, error, yielded) ==
    [status |-> status, error |-> error, yielded |-> yielded]

\* get_payment_stream yielding a payment for every invoice, settled or not.
get_payment_stream_YieldUnsettled(delivery) ==
    IF delivery.kind = "end"
    THEN StreamStep("ended", NoError, <<>>)
    ELSE IF delivery.kind = "RpcError"
    THEN IF delivery.code # "CANCELLED"
         THEN StreamStep("failed", InvoiceSubscriptionError, <<>>)
         ELSE StreamStep("ended", NoError, <<>>)
    ELSE LET sent_offer == get_sent_offer_fn(delivery.invoice.r_hash)
         IN IF sent_offer = None
            THEN StreamStep("failed",
                            Error("AttributeError", <<"squeak_hash">>), <<>>)
            ELSE StreamStep("open", NoError,
                     <<ReceivedPaymentRecord(sent_offer,
                                             delivery.invoice.settle_index)>>)

\* get_payment_stream yielding the payment of a settled invoice twice.
get_payment_stream_YieldTwice(delivery) ==
    IF delivery.kind = "end"
    THEN StreamStep("ended", NoError, <<>>)
    ELSE IF delivery.kind = "RpcError"
    THEN IF delivery.code # "CANCELLED"
         THEN StreamStep("failed", InvoiceSubscriptionError, <<>>)
         ELSE StreamStep("ended", NoError, <<>>)
    ELSE IF ~delivery.invoice.settled
    THEN StreamStep("open", NoError, <<>>)
    ELSE LET sent_offer == get_sent_offer_fn(delivery.invoice.r_hash)
         IN IF sent_offer = None
            THEN StreamStep("failed",
                            Error("AttributeError", <<"squeak_hash">>), <<>>)
            ELSE StreamStep("open", NoError,
                     <<ReceivedPaymentRecord(sent_offer,
                                             delivery.invoice.settle_index),
                       ReceivedPaymentRecord(sent_offer,
                                             delivery.invoice.settle_index)>>)

\* get_payment_stream turning every RpcError into InvoiceSubscriptionError.
get_payment_stream_RaiseOnCancel(delivery) ==
    IF delivery.kind = "end"
    THEN StreamStep("ended", NoError, <<>>)
    ELSE IF delivery.kind = "RpcError"
    THEN StreamStep("failed", InvoiceSubscriptionError, <<>>)
    ELSE IF ~delivery.invoice.settled
    THEN StreamStep("open", NoError, <<>>)
    ELSE LET sent_offer == get_sent_offer_fn(delivery.invoice.r_hash)
         IN IF sent_offer = None
            THEN StreamStep("failed",
                            Error("AttributeError", <<"squeak_hash">>), <<>>)
            ELSE StreamStep("open", NoError,
                     <<ReceivedPaymentRecord(sent_offer,
                                             delivery.invoice.settle_index)>>)

\* get_payment_stream for one read of invoice_stream: the end of the stream
\* ends the generator, an RpcError ends it (CANCELLED) or raises
\* InvoiceSubscriptionError, an invoice that is not settled is passed over, a
\* settled one is looked up and yielded; the lookup giving None makes the
\* attribute access raise.
get_payment_stream(delivery) ==
    IF delivery.kind = "end"
    THEN StreamStep("ended", NoError, <<>>)
    ELSE IF delivery.kind = "RpcError"
    THEN IF delivery.code # "CANCELLED"
         THEN StreamStep("failed", InvoiceSubscriptionError, <<>>)
         ELSE StreamStep("ended", NoError, <<>>)
    ELSE IF ~delivery.invoice.settled
    THEN StreamStep("open", NoError, <<>>)
    ELSE LET sent_offer == get_sent_offer_fn(delivery.invoice.r_hash)
         IN IF sent_offer = None
            THEN StreamStep("failed",
                            Error("AttributeError", <<"squeak_hash">>), <<>>)
            ELSE StreamStep("open", NoError,
                     <<ReceivedPaymentRecord(sent_offer,
                                             delivery.invoice.settle_index)>>)

SettleInit ==
    /\ settledLog = <<>>
    /\ sentOfferDb = {}
    /\ stream = [status |-> "none", latest_settle_index |-> 0, cursor |-> 0,
                 cancelled |-> FALSE, delivery |-> NoDelivery,
                 error |-> NoError, yielded |-> <<>>]

\* The seller stores the SentOffer of an invoice.
SaveSentOffer ==
    /\ \E i \in PaymentIds \ sentOfferDb : sentOfferDb' = sentOfferDb \cup {i}
    /\ UNCHANGED <<settledLog, stream>>
    /\ UNCHANGED verifierVars
    /\ UNCHANGED coreVars
    /\ UNCHANGED cmVars
    /\ UNCHANGED adminVars
    /\ UNCHANGED threadVars

\* A buyer pays an open invoice: the node gives it the next settle_index.
SettleInvoice ==
    /\ \E i \in OpenPaymentIds : settledLog' = Append(settledLog, i)
    /\ UNCHANGED <<sentOfferDb, stream>>
    /\ UNCHANGED verifierVars
    /\ UNCHANGED coreVars
    /\ UNCHANGED cmVars
    /\ UNCHANGED adminVars
    /\ UNCHANGED threadVars

\* get_received_payments: subscribes and returns the stream, not yet read.
GetReceivedPayments ==
    /\ \E latest_settle_index \in 0..Len(settledLog) :
          stream' = [status |-> "open",
                     latest_settle_index |-> latest_settle_index,
                     cursor |-> latest_settle_index,
                     cancelled |-> FALSE, delivery |-> NoDelivery,
                     error |-> NoError, yielded |-> <<>>]
    /\ UNCHANGED <<settledLog, sentOfferDb>>
    /\ UNCHANGED verifierVars
    /\ UNCHANGED coreVars
    /\ UNCHANGED cmVars
    /\ UNCHANGED adminVars
    /\ UNCHANGED threadVars

\* cancel_fn, at any time after the stream was returned.
CancelSubscription ==
    /\ stream.status # "none"
    /\ stream' = [stream EXCEPT !.cancelled = TRUE]
    /\ UNCHANGED <<settledLog, sentOfferDb>>
    /\ UNCHANGED verifierVars
    /\ UNCHANGED coreVars
    /\ UNCHANGED cmVars
    /\ UNCHANGED adminVars
    /\ UNCHANGED threadVars

\* The consumer reads on: the generator takes the next item of invoice_stream.
ReadPaymentStream ==
    /\ stream.status = "open"
    /\ \E delivery \in subscribe_invoices(stream.cursor, stream.cancelled) :
          LET step == get_payment_stream(delivery)
          IN stream' = [stream EXCEPT
                 !.status = step.status,
                 !.error = step.error,
                 !.delivery = delivery,
                 !.cursor = IF delivery.kind = "invoice" /\ delivery.invoice.settled
                            THEN delivery.invoice.settle_index ELSE @,
                 !.yielded = @ \o step.yielded]
    /\ UNCHANGED <<settledLog, sentOfferDb>>
    /\ UNCHANGED verifierVars
    /\ UNCHANGED coreVars
    /\ UNCHANGED cmVars
    /\ UNCHANGED adminVars
    /\ UNCHANGED threadVars

SellerNext ==
    \/ MakeSqueak
    \/ SaveSentOffer
    \/ SettleInvoice
    \/ GetReceivedPayments
    \/ CancelSubscription
    \/ ReadPaymentStream

-----------------------------------------------------------------------------
(* SentOffersVerifier (squeaknode/node/sent_offers_verifier.py) and the    *)
(* storage operations it consumes.                                         *)

LND_CONNECT_RETRY_S == 10

\* squeak_db.get_latest_settle_index(): the largest settle_index of the
\* stored received payments, None (here the empty tuple) when there is none.
get_latest_settle_index ==
    IF Len(receivedPaymentsDb) = 0
    THEN <<>>
    ELSE << CHOOSE m \in { receivedPaymentsDb[k].settle_index :
                             k \in 1..Len(receivedPaymentsDb) } :
              \A k \in 1..Len(receivedPaymentsDb) :
                  receivedPaymentsDb[k].settle_index <= m >>

\* squeak_db.get_sent_offer_by_preimage_hash(preimage_hash): the stored
\* SentOffer, None when storage has none.
get_sent_offer_by_preimage_hash(preimage_hash) ==
    IF \E i \in sentOfferDb : hex(PaymentHashOf(i)) = preimage_hash
    THEN LET i == CHOOSE j \in sentOfferDb : hex(PaymentHashOf(j)) = preimage_hash
         IN [squeak_hash |-> StoredSentOffer(i).squeak_hash,
             preimage_hash |-> preimage_hash,
             price_msat |-> StoredSentOffer(i).price_msat]
    ELSE None

\* squeak_db.insert_received_payment(received_payment): a second insert for
\* a settle_index that has a row leaves storage as it is.
insert_received_payment(received_payment) ==
    IF \E k \in 1..Len(receivedPaymentsDb) :
           receivedPaymentsDb[k].settle_index = received_payment.settle_index
    THEN receivedPaymentsDb
    ELSE Append(receivedPaymentsDb, received_payment)

\* What a call into storage may do besides answering: fail.
DbAnswers == { "ok", "error" }
DbError == Error("DatabaseError", <<>>)

\* The outcome of a verifier call: the storage it leaves, the exception it
\* raises, the storage operations it issued.
Verified(rows, error, ops) == [rows |-> rows, error |-> error, ops |-> ops]

\* _record_payment going on to the next invoice when storage has no SentOffer.
record_payment_SkipMissing(preimage_hash, settle_index, db) ==
    LET sent_offer == get_sent_offer_by_preimage_hash(preimage_hash)
        lookup == <<"get_sent_offer_by_preimage_hash", preimage_hash>>
    IN IF sent_offer = None
       THEN Verified(receivedPaymentsDb, NoError, <<lookup>>)
       ELSE LET received_payment ==
                    [received_payment_id |-> None,
                     created |-> None,
                     squeak_hash |-> sent_offer.squeak_hash,
                     preimage_hash |-> sent_offer.preimage_hash,
                     price_msat |-> sent_offer.price_msat,
                     settle_index |-> settle_index]
                insert == <<"insert_received_payment", received_payment>>
            IN IF db = "error"
               THEN Verified(receivedPaymentsDb, DbError, <<lookup, insert>>)
               ELSE Verified(insert_received_payment(received_payment),
                             NoError, <<lookup, insert>>)

\* _record_payment numbering the payments itself instead of taking the
\* invoice's settle_index.
record_payment_OwnIndex(preimage_hash, settle_index, db) ==
    LET sent_offer == get_sent_offer_by_preimage_hash(preimage_hash)
        lookup == <<"get_sent_offer_by_preimage_hash", preimage_hash>>
    IN IF sent_offer = None
       THEN Verified(receivedPaymentsDb,
                     Error("AttributeError", <<"squeak_hash">>), <<lookup>>)
       ELSE LET received_payment ==
                    [received_payment_id |-> None,
                     created |-> None,
                     squeak_hash |-> sent_offer.squeak_hash,
                     preimage_hash |-> sent_offer.preimage_hash,
                     price_msat |-> sent_offer.price_msat,
                     settle_index |-> Len(receivedPaymentsDb) + 1]
                insert == <<"insert_received_payment", received_payment>>
            IN IF db = "error"
               THEN Verified(receivedPaymentsDb, DbError, <<lookup, insert>>)
               ELSE Verified(insert_received_payment(received_payment),
                             NoError, <<lookup, insert>>)

\* _record_payment: looks the SentOffer up, builds the ReceivedPayment from
\* it and the invoice's settle_index, inserts it. A lookup that gives None
\* makes the attribute access raise; `db` says whether the insert fails.
record_payment(preimage_hash, settle_index, db) ==
    LET sent_offer == get_sent_offer_by_preimage_hash(preimage_hash)
        lookup == <<"get_sent_offer_by_preimage_hash", preimage_hash>>
    IN IF sent_offer = None
       THEN Verified(receivedPaymentsDb,
                     Error("AttributeError", <<"squeak_hash">>), <<lookup>>)
       ELSE LET received_payment ==
                    [received_payment_id |-> None,
                     created |-> None,
                     squeak_hash |-> sent_offer.squeak_hash,
                     preimage_hash |-> sent_offer.preimage_hash,
                     price_msat |-> sent_offer.price_msat,
                     settle_index |-> settle_index]
                insert == <<"insert_received_payment", received_payment>>
            IN IF db = "error"
               THEN Verified(receivedPaymentsDb, DbError, <<lookup, insert>>)
               ELSE Verified(insert_received_payment(received_payment),
                             NoError, <<lookup, insert>>)

\* verify_sent_offer recording every invoice it is given, settled or not.
verify_sent_offer_AnyInvoice(invoice, db) ==
    record_payment(hex(invoice.r_hash), invoice.settle_index, db)

\* verify_sent_offer: records the payment of a settled invoice.
verify_sent_offer(invoice, db) ==
    IF invoice.settled
    THEN record_payment(hex(invoice.r_hash), invoice.settle_index, db)
    ELSE Verified(receivedPaymentsDb, NoError, <<>>)

\* One step of try_processing, from where the worker stands.
\*   "start"     : about to read the latest settle index;
\*   "streaming" : inside the for loop over subscribe_invoices;
\*   "sleeping"  : in time.sleep(LND_CONNECT_RETRY_S) of the except branch;
\*   "crashed"   : an exception left process_subscribed_invoices.
VerifierState(pc, latest_settle_index, cursor, slept) ==
    [pc |-> pc, latest_settle_index |-> latest_settle_index,
     cursor |-> cursor, slept |-> slept]

NoInvoice == [r_hash |-> <<>>, settled |-> FALSE, settle_index |-> 0]
VerifierCall(op, invoice, before, r) ==
    [op |-> op, invoice |-> invoice, before |-> before,
     error |-> r.error, ops |-> r.ops]

VerifierInit ==
    /\ receivedPaymentsDb = <<>>
    /\ verifier = VerifierState("start", 0, 0, 0)
    /\ stop_signal = FALSE
    /\ vLast = VerifierCall("init", NoInvoice, <<>>,
                            Verified(<<>>, NoError, <<>>))

\* try_processing opening every subscription at the beginning of the
\* invoice history.
latest_settle_index_or_zero_FromStart(answer) == 0

\* `self._get_latest_settle_index() or 0`: the settle index the subscription
\* is opened with, 0 when storage has no received payment.
latest_settle_index_or_zero(answer) == IF answer = <<>> THEN 0 ELSE answer[1]

\* try_processing, first line: latest_settle_index is read outside the try,
\* so a failure of storage here leaves the while loop.
ReadLatestSettleIndex ==
    /\ verifier.pc = "start"
    /\ \E db \in DbAnswers :
          IF db = "error"
          THEN /\ verifier' = [verifier EXCEPT !.pc = "crashed"]
               /\ vLast' = VerifierCall("get_latest_settle_index", NoInvoice,
                                        receivedPaymentsDb,
                                        Verified(receivedPaymentsDb, DbError,
                                                 <<<<"get_latest_settle_index">>>>))
          ELSE LET latest_settle_index ==
                       latest_settle_index_or_zero(get_latest_settle_index)
               IN /\ verifier' = [verifier EXCEPT
                                     !.pc = "streaming",
                                     !.latest_settle_index = latest_settle_index,
                                     !.cursor = latest_settle_index]
                  /\ vLast' = VerifierCall("get_latest_settle_index", NoInvoice,
                                           receivedPaymentsDb,
                                           Verified(receivedPaymentsDb, NoError,
                                                    <<<<"get_latest_settle_index">>>>))
    /\ UNCHANGED <<receivedPaymentsDb, stop_signal>>
    /\ UNCHANGED <<settledLog, sentOfferDb, stream>>
    /\ UNCHANGED coreVars
    /\ UNCHANGED cmVars
    /\ UNCHANGED adminVars
    /\ UNCHANGED threadVars

\* The for loop over subscribe_invoices(settle_index=latest_settle_index):
\* one read of the stream and verify_sent_offer of the invoice it gives. The
\* end of the stream ends try_processing; any exception, of the stream or
\* of verify_sent_offer, is caught and followed by the sleep.
ProcessInvoice ==
    /\ verifier.pc = "streaming"
    /\ \E delivery \in subscribe_invoices(verifier.cursor, FALSE), db \in DbAnswers :
          IF delivery.kind = "end"
          THEN /\ verifier' = [verifier EXCEPT !.pc = "start"]
               /\ UNCHANGED <<receivedPaymentsDb, vLast>>
          ELSE IF delivery.kind = "RpcError"
          THEN /\ verifier' = [verifier EXCEPT !.pc = "sleeping"]
               /\ UNCHANGED <<receivedPaymentsDb, vLast>>
          ELSE LET r == verify_sent_offer(delivery.invoice, db)
               IN /\ receivedPaymentsDb' = r.rows
                  /\ vLast' = VerifierCall("verify_sent_offer", delivery.invoice,
                                           receivedPaymentsDb, r)
                  /\ verifier' =
                         [verifier EXCEPT
                             !.pc = IF r.error = NoError THEN "streaming"
                                    ELSE "sleeping",
                             !.cursor = IF delivery.invoice.settled
                                        THEN delivery.invoice.settle_index
                                        ELSE @]
    /\ UNCHANGED stop_signal
    /\ UNCHANGED <<settledLog, sentOfferDb, stream>>
    /\ UNCHANGED coreVars
    /\ UNCHANGED cmVars
    /\ UNCHANGED adminVars
    /\ UNCHANGED threadVars

\* time.sleep(LND_CONNECT_RETRY_S) returns and the while loop goes round.
WakeUp ==
    /\ verifier.pc = "sleeping"
    /\ verifier' = [verifier EXCEPT !.pc = "start",
                                    !.slept = LND_CONNECT_RETRY_S]
    /\ UNCHANGED <<receivedPaymentsDb, stop_signal, vLast>>
    /\ UNCHANGED <<settledLog, sentOfferDb, stream>>
    /\ UNCHANGED coreVars
    /\ UNCHANGED cmVars
    /\ UNCHANGED adminVars
    /\ UNCHANGED threadVars

\* The owner of the worker thread asks it to stop. SentOffersVerifier has
\* no method that takes the request and no code that reads it.
RaiseStopSignal ==
    /\ ~stop_signal
    /\ stop_signal' = TRUE
    /\ UNCHANGED <<receivedPaymentsDb, verifier, vLast>>
    /\ UNCHANGED <<settledLog, sentOfferDb, stream>>
    /\ UNCHANGED coreVars
    /\ UNCHANGED cmVars
    /\ UNCHANGED adminVars
    /\ UNCHANGED threadVars

\* verify_sent_offer called with an invoice of the node, as when an invoice
\* is handed to the verifier again.
VerifySentOffer ==
    /\ \E invoice \in { Invoice(settledLog[k], k) : k \in 1..Len(settledLog) }
                      \cup { Invoice(i, 0) : i \in OpenPaymentIds },
          db \in DbAnswers :
          LET r == verify_sent_offer(invoice, db)
          IN /\ receivedPaymentsDb' = r.rows
             /\ vLast' = VerifierCall("verify_sent_offer", invoice,
                                      receivedPaymentsDb, r)
    /\ UNCHANGED <<verifier, stop_signal>>
    /\ UNCHANGED <<settledLog, sentOfferDb, stream>>
    /\ UNCHANGED coreVars
    /\ UNCHANGED cmVars
    /\ UNCHANGED adminVars
    /\ UNCHANGED threadVars

VerifierStep == ReadLatestSettleIndex \/ ProcessInvoice \/ WakeUp

VerifierNext ==
    \/ SaveSentOffer
    \/ SettleInvoice
    \/ ReadLatestSettleIndex
    \/ ProcessInvoice
    \/ WakeUp
    \/ RaiseStopSignal

RedeliveryNext ==
    \/ SaveSentOffer
    \/ SettleInvoice
    \/ VerifySentOffer

-----------------------------------------------------------------------------
(* The admin request shim (squeaknode/admin/webapp/app.py).                *)

Clients == { "browser-a", "browser-b" }
\* Every RPC route has the same shape: login_required, then handle_request
\* with the route's message type and handler method.
Endpoints == { "lndgetinfo", "payoffer" }
ValidUsername == "admin"
ValidPassword == "secret"
Usernames == { ValidUsername, "mallory" }
Passwords == { ValidPassword, "guess" }

\* Response bodies and responses.
TextBody(text) == <<"text", text>>
ProtobufBody(reply) == <<"protobuf", reply>>
Response(status, body, location) ==
    [status |-> status, body |-> body, location |-> location]
Redirect(location) == Response(302, TextBody(""), location)
\* What Flask answers when a view lets an exception escape.
InternalServerError == Response(500, <<"html", "Internal Server Error">>, "")

\* What a request to an RPC route meets on its way: a body that does not
\* parse, a handler that raises, a reply that does not serialize, or none
\* of these. `message` is the string form of the exception.
Failure(stage, message) == [stage |-> stage, message |-> message]
NoFailure == Failure("none", "")
Failures ==
    { NoFailure,
      Failure("parse", "Error parsing message"),
      Failure("handler", "Payment failed with error: no_route"),
      Failure("serialize", "Message is missing required fields") }

\* What a view does: the response, the sessions it leaves authenticated,
\* whether the handler method was invoked.
Served(response, authenticated, invoked) ==
    [response |-> response, authenticated |-> authenticated, invoked |-> invoked]

\* handle_request: ParseFromString runs before the try, so its exception
\* escapes the view; the handler call and SerializeToString run inside it.
handle_request(endpoint, failure) ==
    IF failure.stage = "parse"
    THEN Served(InternalServerError, sessions, FALSE)
    ELSE IF failure.stage \in {"handler", "serialize"}
    THEN Served(Response(500, TextBody(failure.message), ""), sessions, TRUE)
    ELSE Served(Response(200, ProtobufBody(<<"reply", endpoint>>), ""),
                sessions, TRUE)

\* flask_login.login_required around a view: the view runs when login is
\* disabled or the session is authenticated; otherwise unauthorized_callback
\* answers.
unauthorized_callback == Served(Redirect("/login"), sessions, FALSE)
login_required(client, view) ==
    IF login_disabled \/ client \in sessions THEN view ELSE unauthorized_callback

\* User.get_user_by_username and User.check_password for the one valid user.
get_user_by_username(username) ==
    IF username = ValidUsername THEN [username |-> username] ELSE None
check_password(user, password) == password = ValidPassword

\* POST /login with the form's fields.
login(client, username, password) ==
    IF client \in sessions
    THEN Served(Redirect("/"), sessions, FALSE)
    ELSE LET user == get_user_by_username(username)
         IN IF user = None \/ ~check_password(user, password)
            THEN Served(Redirect("/login"), sessions, FALSE)
            ELSE Served(Redirect("/"), sessions \cup {client}, FALSE)

\* logout answering without ending the session.
logout_KeepSession(client) == Served(Redirect("/"), sessions, FALSE)

\* GET /logout.
logout(client) == Served(Redirect("/"), sessions \ {client}, FALSE)

\* GET /<filename>: Flask's static route (static_url_path="/"), which no
\* view decorator guards.
StaticFiles == { "index.html", "main.js" }
send_static_file(filename) ==
    Served(Response(200, <<"file", filename>>, ""), sessions, FALSE)

\* GET /.
index(client) ==
    login_required(client,
        Served(Response(200, <<"file", "index.html">>, ""), sessions, FALSE))

\* POST /<endpoint>.
rpc_endpoint(client, endpoint, failure) ==
    login_required(client, handle_request(endpoint, failure))

AdminCall(op, client, args, failure, r) ==
    [op |-> op, client |-> client, args |-> args, failure |-> failure,
     before |-> sessions, response |-> r.response, invoked |-> r.invoked]

AdminInit ==
    /\ sessions = {}
    /\ login_disabled = FALSE
    /\ adminLast = [op |-> "init", client |-> "", args |-> <<>>,
                    failure |-> NoFailure, before |-> {},
                    response |-> Response(0, TextBody(""), ""),
                    invoked |-> FALSE]

\* SqueakAdminWebServer.get_app with the login_disabled the server was
\* constructed with.
GetApp ==
    /\ \E configured \in BOOLEAN :
          /\ login_disabled' = (login_disabled \/ configured)
          /\ adminLast' = [op |-> "get_app", client |-> "",
                           args |-> <<configured>>, failure |-> NoFailure,
                           before |-> sessions,
                           response |-> Response(0, TextBody(""), ""),
                           invoked |-> FALSE]
    /\ UNCHANGED sessions
    /\ UNCHANGED <<coreVars, settleVars, threadVars>>
    /\ UNCHANGED <<peers, peers_changed_callback, registered, cmLast>>

Login ==
    /\ \E client \in Clients, username \in Usernames, password \in Passwords :
          LET r == login(client, username, password)
          IN /\ sessions' = r.authenticated
             /\ adminLast' = AdminCall("login", client, <<username, password>>,
                                       NoFailure, r)
    /\ UNCHANGED login_disabled
    /\ UNCHANGED <<coreVars, settleVars, threadVars>>
    /\ UNCHANGED <<peers, peers_changed_callback, registered, cmLast>>

Logout ==
    /\ \E client \in Clients :
          LET r == logout(client)
          IN /\ sessions' = r.authenticated
             /\ adminLast' = AdminCall("logout", client, <<>>, NoFailure, r)
    /\ UNCHANGED login_disabled
    /\ UNCHANGED <<coreVars, settleVars, threadVars>>
    /\ UNCHANGED <<peers, peers_changed_callback, registered, cmLast>>

Index ==
    /\ \E client \in Clients :
          LET r == index(client)
          IN /\ sessions' = r.authenticated
             /\ adminLast' = AdminCall("index", client, <<>>, NoFailure, r)
    /\ UNCHANGED login_disabled
    /\ UNCHANGED <<coreVars, settleVars, threadVars>>
    /\ UNCHANGED <<peers, peers_changed_callback, registered, cmLast>>

Static ==
    /\ \E client \in Clients, filename \in StaticFiles :
          LET r == send_static_file(filename)
          IN /\ sessions' = r.authenticated
             /\ adminLast' = AdminCall("static", client, <<filename>>,
                                       NoFailure, r)
    /\ UNCHANGED login_disabled
    /\ UNCHANGED <<coreVars, settleVars, threadVars>>
    /\ UNCHANGED <<peers, peers_changed_callback, registered, cmLast>>

RpcEndpoint ==
    /\ \E client \in Clients, endpoint \in Endpoints, failure \in Failures :
          LET r == rpc_endpoint(client, endpoint, failure)
          IN /\ sessions' = r.authenticated
             /\ adminLast' = AdminCall("rpc", client, <<endpoint>>, failure, r)
    /\ UNCHANGED login_disabled
    /\ UNCHANGED <<coreVars, settleVars, threadVars>>
    /\ UNCHANGED <<peers, peers_changed_callback, registered, cmLast>>

AdminNext == GetApp \/ Login \/ Logout \/ Index \/ Static \/ RpcEndpoint

-----------------------------------------------------------------------------
(* ConnectionManager under threads: peers_lock is a threading.Lock, which  *)
(* is not reentrant, and every public method that takes it runs its whole  *)
(* body, the call of on_peers_changed and of close() included, inside      *)
(* `with self.peers_lock`.                                                 *)

Threads == { "t1", "t2" }
LockFree == ""
\* How a peer's close() brings its removal about: its connection handler
\* calls remove_peer later on its own thread, or close() calls remove_peer
\* itself, on the thread that called close().
CloseModes == { "handler", "synchronous" }

\* The threads contend for one address: the peer objects they pass to
\* add_peer and remove_peer are the ones that carry it.
ContendedAddress == [host |-> "10.0.0.2", port |-> 8555]
ContendingPeers == { p \in PeerObjects : p.address = ContendedAddress }

\* Where a thread stands in a ConnectionManager method.
\*   "idle"      : not in a call;
\*   "acquire"   : at `with self.peers_lock`, waiting for the lock;
\*   "locked"    : inside the with block, before the body ran;
\*   "nested"    : inside the with block, in close(), at the
\*                 `with self.peers_lock` of the remove_peer it calls;
\*   "done"      : the with block was left and the call returned or raised.
IdleThread ==
    [pc |-> "idle", op |-> "", arg |-> None, error |-> NoError,
     held |-> FALSE, observer |-> FALSE, changed |-> 0, observed |-> "never"]

\* Where the observer ran in a call that notified it: on_peers_changed is
\* called inside the with block of add_peer and remove_peer.
ObservedWhere(notified) == IF Len(notified) > 0 THEN "locked" ELSE "never"

ThreadInit ==
    /\ peers_lock = LockFree
    /\ threads = [t \in Threads |-> IdleThread]
    /\ closing = {}

ThreadFrame ==
    /\ UNCHANGED <<registered, cmLast>>
    /\ UNCHANGED <<coreVars, settleVars, adminVars>>

\* A thread that is in no call calls add_peer, remove_peer, stop_connection
\* or stop_all_connections and reaches the with statement.
ThreadCall(t) ==
    /\ threads[t].pc \in {"idle", "done"}
    /\ \/ \E op \in {"add_peer", "remove_peer"}, peer \in ContendingPeers :
             threads' = [threads EXCEPT ![t] =
                            [IdleThread EXCEPT !.pc = "acquire", !.op = op,
                                               !.arg = peer]]
       \/ \E address \in Addresses :
             threads' = [threads EXCEPT ![t] =
                            [IdleThread EXCEPT !.pc = "acquire",
                                               !.op = "stop_connection",
                                               !.arg = address]]
       \/ threads' = [threads EXCEPT ![t] =
                         [IdleThread EXCEPT !.pc = "acquire",
                                            !.op = "stop_all_connections"]]
    /\ UNCHANGED <<peers, peers_changed_callback, peers_lock, closing>>
    /\ ThreadFrame

\* `with self.peers_lock`, of the method called or of the remove_peer that
\* close() calls: threading.Lock.acquire takes the lock only when it is
\* free, whoever asks, the thread that holds it included.
ThreadAcquire(t) ==
    /\ threads[t].pc \in {"acquire", "nested"}
    /\ peers_lock = LockFree
    /\ peers_lock' = t
    /\ threads' = [threads EXCEPT ![t] =
                       [@ EXCEPT !.pc = "locked",
                                 !.op = IF threads[t].pc = "nested"
                                        THEN "remove_peer" ELSE @]]
    /\ UNCHANGED <<peers, peers_changed_callback, closing>>
    /\ ThreadFrame

\* The body of add_peer or remove_peer, under the lock, to the end of the
\* with block, which frees the lock whether the body returned or raised.
ThreadMutate(t) ==
    /\ threads[t].pc = "locked"
    /\ threads[t].op \in {"add_peer", "remove_peer"}
    /\ LET peer == threads[t].arg
           r == IF threads[t].op = "add_peer"
                THEN add_peer(peer) ELSE remove_peer(peer)
       IN /\ peers' = r.peers
          /\ threads' = [threads EXCEPT ![t] =
                 [@ EXCEPT !.pc = "done",
                           !.error = r.error,
                           !.held = has_connection(peer.address),
                           !.observer = (peers_changed_callback # None),
                           !.changed = r.changed,
                           !.observed = ObservedWhere(r.notified)]]
    /\ peers_lock' = LockFree
    /\ UNCHANGED <<peers_changed_callback, closing>>
    /\ ThreadFrame

\* The body of stop_connection or stop_all_connections, under the lock: the
\* close() calls. A close() that calls remove_peer itself brings the thread
\* to the with statement of remove_peer while it holds the lock; otherwise
\* the removals are left to the handlers and the with block is left.
ThreadClose(t) ==
    /\ threads[t].pc = "locked"
    /\ threads[t].op \in {"stop_connection", "stop_all_connections"}
    /\ LET r == IF threads[t].op = "stop_connection"
                THEN stop_connection(threads[t].arg)
                ELSE stop_all_connections
       IN /\ peers' = r.peers
          /\ \E mode \in CloseModes :
                IF Len(r.closed) = 0
                THEN /\ threads' = [threads EXCEPT ![t].pc = "done"]
                     /\ peers_lock' = LockFree
                     /\ UNCHANGED closing
                ELSE IF mode = "synchronous"
                THEN /\ threads' = [threads EXCEPT ![t] =
                            [@ EXCEPT !.pc = "nested", !.arg = r.closed[1]]]
                     /\ UNCHANGED <<peers_lock, closing>>
                ELSE /\ threads' = [threads EXCEPT ![t].pc = "done"]
                     /\ peers_lock' = LockFree
                     /\ closing' = closing \cup Range(r.closed)
    /\ UNCHANGED peers_changed_callback
    /\ ThreadFrame

\* The connection handler of a closed peer calls remove_peer on its own
\* thread: it takes the lock when it is free, runs the body and frees it.
HandlerRemovePeer ==
    /\ peers_lock = LockFree
    /\ \E peer \in closing :
          /\ peers' = remove_peer(peer).peers
          /\ closing' = closing \ {peer}
    /\ UNCHANGED <<peers_changed_callback, peers_lock, threads>>
    /\ ThreadFrame

\* listen_peers_changed, which takes no lock.
ThreadListenPeersChanged ==
    /\ peers_changed_callback = None
    /\ \E callback \in Callbacks : peers_changed_callback' = callback
    /\ UNCHANGED <<peers, peers_lock, threads, closing>>
    /\ ThreadFrame

ThreadStep(t) ==
    \/ ThreadAcquire(t)
    \/ ThreadMutate(t)
    \/ ThreadClose(t)

ThreadsNext ==
    \/ \E t \in Threads : ThreadCall(t)
    \/ \E t \in Threads : ThreadAcquire(t)
    \/ \E t \in Threads : ThreadMutate(t)
    \/ \E t \in Threads : ThreadClose(t)
    \/ HandlerRemovePeer
    \/ ThreadListenPeersChanged

-----------------------------------------------------------------------------
(* Specifications.                                                         *)

Init == CoreInit /\ CMInit /\ SettleInit /\ VerifierInit /\ AdminInit
        /\ ThreadInit

\* The sale protocol; the ConnectionManager stays as constructed.
Next == CoreNext
Spec == Init /\ [][Next]_vars

\* The ConnectionManager; the sale protocol stays idle.
SpecCM == Init /\ [][CMNext]_vars

\* The seller outside a sale: authoring, and the received-payments stream
\* over the settlements at its Lightning node.
SpecSeller == Init /\ [][SellerNext]_vars

\* The SentOffersVerifier worker over the settlements at the Lightning node.
SpecVerifier == Init /\ [][VerifierNext]_vars
\* The same, the worker thread being scheduled as long as it can step.
SpecVerifierFair == SpecVerifier /\ WF_vars(VerifierStep)

\* verify_sent_offer called with the invoices of the node, in any order and
\* any number of times.
SpecRedelivery == Init /\ [][RedeliveryNext]_vars

\* The verifier with a storage that answers again and again and a node
\* that again and again delivers the next settled invoice: a worker that
\* can step does, a read of the latest settle index that can be made over
\* and over eventually succeeds, and so does the recording of an invoice.
ReadSucceeds == ReadLatestSettleIndex /\ verifier'.pc = "streaming"
RecordSucceeds ==
    /\ ProcessInvoice
    /\ vLast'.op = "verify_sent_offer"
    /\ vLast'.invoice.settled
    /\ vLast'.error = NoError
    /\ receivedPaymentsDb' # receivedPaymentsDb
SpecVerifierDelivering ==
    /\ SpecVerifier
    /\ WF_vars(VerifierStep)
    /\ SF_vars(ReadSucceeds)
    /\ SF_vars(RecordSucceeds)

\* The ConnectionManager called from several threads.
SpecCMThreads == Init /\ [][ThreadsNext]_vars
\* The same, every thread and every connection handler being scheduled as
\* long as it can step.
SpecCMThreadsFair ==
    /\ SpecCMThreads
    /\ \A t \in Threads : WF_vars(ThreadStep(t))
    /\ WF_vars(HandlerRemovePeer)

\* The admin web server and its clients.
SpecAdmin == Init /\ [][AdminNext]_vars

-----------------------------------------------------------------------------
(* The sale protocol's properties.                                         *)

\* The SentPayment the last call returned, when that call was pay_offer.
PaidOk == last.op = "pay_offer" /\ last.out.error = NoError
LastPayment == last.out.result[1]

\* The SentOffers whose Offer, packaged unaltered and unpacked for the
\* squeak it sells, is the ReceivedOffer the last pay_offer paid.
HonestSources ==
    { so \in sentOffers :
        \E lnd_external_address \in ExternalAddresses, uris \in UriLists,
           peer_address \in PeerAddresses :
           LET offer == package_offer(so.offer, lnd_external_address, uris).result[1]
               unpacked == unpack_offer(so.squeak, offer, peer_address)
           IN /\ unpacked.error = NoError
              /\ unpacked.result[1] = last.args.received_offer }

\* C1. Key recovery: when pay_offer pays the ReceivedOffer unpacked from the
\* unaltered Offer of a SentOffer and the payment returns the invoice's
\* preimage, the SentPayment holds the secret key create_offer was given,
\* and valid is true.
C1_KeyRecovery ==
    PaidOk =>
        \A so \in HonestSources :
            /\ LastPayment.secret_key = so.secret_key
            /\ LastPayment.valid = TRUE

\* A sale went through end to end, with a preimage that wrapped around the
\* group order.
C1_Witness ==
    /\ PaidOk
    /\ \E so \in HonestSources :
          /\ int_from_bytes(so.secret_key) + int_from_bytes(so.offer.nonce)
                 >= CurveOrder
          /\ LastPayment.secret_key = so.secret_key

\* C2. Hash binding: unpack_offer of an offer whose squeak_hash is not the
\* squeak's hash fails with OfferHashMismatch, returns nothing and has made
\* no call to the Lightning client (neither decode_pay_req nor a payment).
C2_HashBinding ==
    (/\ last.op = "unpack_offer"
     /\ last.args.offer.squeak_hash # get_hash(last.args.squeak))
    => /\ last.out.error.kind = "OfferHashMismatch"
       /\ Len(last.out.result) = 0
       /\ Len(last.out.calls) = 0

\* An offer for another squeak was refused.
C2_Witness ==
    /\ last.op = "unpack_offer"
    /\ last.args.offer.squeak_hash # get_hash(last.args.squeak)
    /\ last.out.error.kind = "OfferHashMismatch"

\* C3. Payment failure: when pay_invoice_sync answers an empty preimage,
\* pay_offer fails with PaymentFailed carrying the answer's payment_error
\* and returns no SentPayment.
C3_PaymentFailure ==
    (/\ last.op = "pay_offer"
     /\ Len(last.args.payment.payment_preimage) = 0)
    => /\ last.out.error.kind = "PaymentFailed"
       /\ last.out.error.detail = <<last.args.payment.payment_error>>
       /\ Len(last.out.result) = 0

\* A payment found no route.
C3_Witness ==
    /\ last.op = "pay_offer"
    /\ Len(last.args.payment.payment_preimage) = 0
    /\ last.args.payment.payment_error = "no_route"
    /\ last.out.error.kind = "PaymentFailed"

\* C4. When pay_invoice_sync answers a preimage, pay_offer returns a
\* SentPayment whose secret_key is the preimage minus the offer's nonce and
\* whose valid flag says whether that key's point is the offer's payment
\* point; the record is returned whether valid or not.
C4_PaymentRecord ==
    (/\ last.op = "pay_offer"
     /\ Len(last.args.payment.payment_preimage) > 0)
    => /\ last.out.error = NoError
       /\ Len(last.out.result) = 1
       /\ LastPayment.secret_key =
              subtract_tweak(last.args.payment.payment_preimage,
                             last.args.received_offer.nonce)
       /\ LastPayment.valid =
              (payment_point_bytes_from_scalar_bytes(LastPayment.secret_key)
                   = last.args.received_offer.payment_point)

\* A payment went through and bought a key that does not open the squeak.
C4_Witness ==
    /\ PaidOk
    /\ Len(last.out.result) = 1
    /\ LastPayment.valid = FALSE

\* C5. Payment-hash binding: every SentOffer's secret_key field is the
\* secret key tweaked by the nonce, its payment_hash is the SHA256 of that
\* field, and the node holds the invoice of that preimage under that hash.
C5_PaymentHashBinding ==
    \A so \in sentOffers :
        /\ so.offer.secret_key = add_tweak(so.secret_key, so.offer.nonce)
        /\ so.offer.payment_hash = sha256(so.offer.secret_key)
        /\ \E i \in invoices :
              /\ i.r_preimage = so.offer.secret_key
              /\ i.r_hash = so.offer.payment_hash
              /\ i.payment_request = so.offer.payment_request

\* An offer was made whose preimage wrapped around the group order.
C5_Witness ==
    \E so \in sentOffers :
        /\ so.offer.secret_key = int_to_bytes(0)
        /\ so.offer.payment_hash = sha256(int_to_bytes(0))

\* C6. The Offer package_offer returns has the fields squeak_hash, nonce,
\* payment_request, host and port and no other, and it is the same Offer
\* whatever the SentOffer's secret_key field holds.
C6_OfferCarriesNoKey ==
    last.op = "package_offer" =>
        /\ DOMAIN last.out.result[1] =
               {"squeak_hash", "nonce", "payment_request", "host", "port"}
        /\ \A k \in AllScalarBytes :
              package_offer([last.args.sent_offer EXCEPT !.secret_key = k],
                            last.args.lnd_external_address,
                            last.args.uris) = last.out

\* An Offer was packaged from a SentOffer that holds a preimage.
C6_Witness ==
    /\ last.op = "package_offer"
    /\ last.args.sent_offer.secret_key \in AllScalarBytes
    /\ last.out.result[1].nonce = last.args.sent_offer.nonce

-----------------------------------------------------------------------------
(* The ConnectionManager's properties.                                     *)

\* Some peer of the map `ps` sent a version whose nonce `peer` received.
NonceHeldIn(ps, peer) ==
    \E q \in Range(ps) :
        /\ q.local_version # None
        /\ q.local_version.nNonce = peer.remote_version
AddressHeldIn(ps, peer) == \E q \in Range(ps) : q.address = peer.address

\* C7. Set invariant: the map holds exactly the peers whose add_peer
\* returned normally and which no remove_peer that returned normally has
\* deleted since, and no two entries have the same address.
C7_SetInvariant ==
    /\ Range(peers) = registered
    /\ \A i, j \in 1..Len(peers) : peers[i].address = peers[j].address => i = j

\* C8. Version-nonce invariant: no two peers of the map are such that one
\* sent the version nonce the other received, whichever was added first.
C8_NoSharedNonce ==
    \A p, q \in Range(peers) :
        p # q => ~(/\ q.local_version # None
                   /\ q.local_version.nNonce = p.remote_version)

\* C9. Duplicate-nonce detection: add_peer of a peer that received the
\* nonce some peer of the map sent fails with DuplicateNonce, leaves the
\* map as it was and does not call the observer.
C9_DuplicateNonce ==
    (/\ cmLast.op = "add_peer"
     /\ NonceHeldIn(cmLast.before, cmLast.peer))
    => /\ cmLast.error.kind = "DuplicateNonceError"
       /\ peers = cmLast.before
       /\ Len(cmLast.notified) = 0

\* With an observer listening, a peer echoing a nonce of the map was refused.
C9_Witness ==
    /\ cmLast.op = "add_peer"
    /\ NonceHeldIn(cmLast.before, cmLast.peer)
    /\ ~AddressHeldIn(cmLast.before, cmLast.peer)
    /\ peers_changed_callback # None
    /\ cmLast.error.kind = "DuplicateNonceError"

\* C10. add_peer of a peer whose address is in the map fails and leaves the
\* map as it was: with DuplicatePeer when no peer of the map sent the nonce
\* it received, with DuplicateNonce when one did.
C10_DuplicatePeer ==
    (/\ cmLast.op = "add_peer"
     /\ AddressHeldIn(cmLast.before, cmLast.peer))
    => /\ peers = cmLast.before
       /\ cmLast.error.kind =
              IF NonceHeldIn(cmLast.before, cmLast.peer)
              THEN "DuplicateNonceError" ELSE "DuplicatePeerError"

\* A second peer object for an address of the map was refused, and the
\* first one is still the entry.
C10_Witness ==
    /\ cmLast.op = "add_peer"
    /\ AddressHeldIn(cmLast.before, cmLast.peer)
    /\ cmLast.peer \notin Range(cmLast.before)
    /\ cmLast.error.kind = "DuplicatePeerError"
    /\ peers = cmLast.before

\* C11. remove_peer of a peer whose address is not in the map fails with
\* MissingPeer, leaves the map as it was and calls neither on_peers_changed
\* nor the observer; otherwise it deletes the entry under that address and
\* calls on_peers_changed once.
C11_RemovePeer ==
    cmLast.op = "remove_peer"
    => IF ~AddressHeldIn(cmLast.before, cmLast.peer)
       THEN /\ cmLast.error.kind = "MissingPeerError"
            /\ peers = cmLast.before
            /\ cmLast.changed = 0
            /\ Len(cmLast.notified) = 0
       ELSE /\ cmLast.error.kind # "MissingPeerError"
            /\ peers = SelectSeq(cmLast.before,
                                 LAMBDA q : q.address # cmLast.peer.address)
            /\ cmLast.changed = 1

\* With an observer listening and another peer in the map, a remove_peer
\* for an address that is not connected was refused.
C11_Witness ==
    /\ cmLast.op = "remove_peer"
    /\ ~AddressHeldIn(cmLast.before, cmLast.peer)
    /\ Len(cmLast.before) > 0
    /\ peers_changed_callback # None
    /\ cmLast.error.kind = "MissingPeerError"

\* C12. With an observer registered, every add_peer and remove_peer that
\* passes its checks and changes the map calls the observer exactly once
\* with the peers now in the map, and returns normally.
C12_ObserverCalled ==
    (/\ cmLast.op \in {"add_peer", "remove_peer"}
     /\ peers_changed_callback # None
     /\ cmLast.changed = 1)
    => /\ cmLast.notified = <<peers>>
       /\ cmLast.error = NoError

\* C13. stop_connection calls close() on the peer under the address and on
\* no other peer, stop_all_connections calls close() once on every peer of
\* the map, and neither changes the map.
C13_StopConnections ==
    /\ cmLast.op = "stop_connection"
       => /\ peers = cmLast.before
          /\ cmLast.closed =
                 SelectSeq(cmLast.before, LAMBDA q : q.address = cmLast.peer)
    /\ cmLast.op = "stop_all_connections"
       => /\ peers = cmLast.before
          /\ Len(cmLast.closed) = Len(cmLast.before)
          /\ Range(cmLast.closed) = Range(cmLast.before)

\* With two peers connected, stop_connection closed one of them.
C13_Witness ==
    /\ cmLast.op = "stop_connection"
    /\ Len(cmLast.before) = 2
    /\ Len(cmLast.closed) = 1
    /\ peers = cmLast.before

-----------------------------------------------------------------------------
(* Authoring.                                                              *)

\* C14. make_squeak with a profile whose private_key is None fails with
\* ProfileNotSigning, makes no client call (the Bitcoin client is not
\* queried) and returns neither a squeak nor a key.
C14_ProfileNotSigning ==
    (/\ last.op = "make_squeak"
     /\ last.args.signing_profile.private_key = None)
    => /\ last.out.error = ProfileNotSigning
       /\ last.out.calls = <<>>
       /\ last.out.result = <<>>

\* A contact profile's reply to a squeak was refused.
C14_Witness ==
    /\ last.op = "make_squeak"
    /\ last.args.signing_profile.private_key = None
    /\ last.args.replyto_hash # None
    /\ last.out.error.kind = "ProfileNotSigning"

-----------------------------------------------------------------------------
(* The received-payments stream.                                           *)

\* C15. The stream of get_received_payments ends without an error when the
\* invoice stream raises the CANCELLED status, which is what it raises once
\* cancel_fn was called, and ends with InvoiceSubscriptionError when the
\* invoice stream raises any other transport error.
C15_StreamEnd ==
    /\ (stream.delivery.kind = "RpcError" /\ stream.delivery.code = "CANCELLED")
       => (stream.status = "ended" /\ stream.error = NoError)
    /\ (stream.delivery.kind = "RpcError" /\ stream.delivery.code # "CANCELLED")
       => (stream.status = "failed" /\ stream.error = InvoiceSubscriptionError)
    /\ (stream.status = "failed" /\ stream.error = InvoiceSubscriptionError)
       => (stream.delivery.kind = "RpcError" /\ stream.delivery.code # "CANCELLED")

\* A stream that had yielded a payment was cancelled and ended cleanly.
C15_Witness ==
    /\ stream.cancelled
    /\ stream.delivery = RpcErrorDelivery("CANCELLED")
    /\ stream.status = "ended"
    /\ stream.error = NoError
    /\ Len(stream.yielded) > 0

\* C16. Settle-index monotonicity: the settle_index values of the payments
\* one subscription yields are strictly increasing.
C16_SettleIndexMonotonic ==
    \A i, j \in 1..Len(stream.yielded) :
        i < j => stream.yielded[i].settle_index < stream.yielded[j].settle_index

\* A subscription yielded two payments.
C16_Witness ==
    /\ Len(stream.yielded) = 2
    /\ stream.yielded[1].settle_index < stream.yielded[2].settle_index
    /\ stream.yielded[1].payment_hash # stream.yielded[2].payment_hash

-----------------------------------------------------------------------------
(* The sent-offers verifier.                                               *)

\* C17. Verifier idempotence: however often verify_sent_offer processes a
\* settled invoice, storage holds at most one ReceivedPayment for its
\* settle_index and at most one for its payment hash.
C17_VerifierIdempotence ==
    \A a, b \in 1..Len(receivedPaymentsDb) :
        (\/ receivedPaymentsDb[a].settle_index = receivedPaymentsDb[b].settle_index
         \/ receivedPaymentsDb[a].preimage_hash = receivedPaymentsDb[b].preimage_hash)
        => a = b

\* A settled invoice whose payment was stored was processed again, the
\* insert was issued again and storage is as it was.
C17_Witness ==
    /\ vLast.op = "verify_sent_offer"
    /\ vLast.invoice.settled
    /\ vLast.error = NoError
    /\ Len(vLast.ops) = 2
    /\ \E k \in 1..Len(vLast.before) :
           vLast.before[k].settle_index = vLast.invoice.settle_index
    /\ receivedPaymentsDb = vLast.before

\* C18. Cooperative shutdown: once the stop signal is raised, the worker
\* loop of process_subscribed_invoices eventually exits.
C18_StopHonored ==
    stop_signal ~> (verifier.pc \in {"stopped", "crashed"})

-----------------------------------------------------------------------------
(* The admin request shim.                                                 *)

\* The last request reached handle_request: login is disabled or the
\* client's session was authenticated.
ReachedHandleRequest ==
    /\ adminLast.op = "rpc"
    /\ (login_disabled \/ adminLast.client \in adminLast.before)

\* C19. Error translation: a request to an RPC endpoint that meets a failure
\* (the body does not parse, the handler raises, the reply does not
\* serialize) is answered with status 500 and the failure's string form;
\* one that meets none is answered with the serialized reply.
C19_ErrorTranslation ==
    ReachedHandleRequest
    => IF adminLast.failure = NoFailure
       THEN adminLast.response =
                Response(200, ProtobufBody(<<"reply", adminLast.args[1]>>), "")
       ELSE adminLast.response =
                Response(500, TextBody(adminLast.failure.message), "")

-----------------------------------------------------------------------------
(* The ConnectionManager under threads.                                    *)

\* C21: whenever add_peer or remove_peer changed the peer map while an
\* observer was registered, the observer ran after the call had left its
\* critical section, that is with peers_lock free.
C21_ObserverOutsideLock ==
    \A t \in Threads :
        ( /\ threads[t].pc = "done"
          /\ threads[t].op \in {"add_peer", "remove_peer"}
          /\ threads[t].changed = 1
          /\ threads[t].observer )
        => threads[t].observed = "unlocked"

\* C22: every stop_connection and stop_all_connections call that entered its
\* critical section eventually returns, and every peer it closed is
\* eventually absent from the map, whether close() leaves the removal to the
\* peer's handler or calls remove_peer on the calling thread.
C22_StopReturns ==
    /\ \A t \in Threads :
          ( /\ threads[t].pc = "locked"
            /\ threads[t].op \in {"stop_connection", "stop_all_connections"} )
          ~> (threads[t].pc = "done")
    /\ \A t \in Threads :
          (threads[t].pc = "nested") ~> (threads[t].arg \notin Range(peers))

\* C23: whatever the interleaving, an add_peer call that meets no nonce
\* clash succeeds when no peer holds its address at the time its body runs
\* and fails with DuplicatePeerError otherwise, so that of the concurrent
\* calls for one address exactly one succeeds; and the map never holds two
\* peers with one address.
C23_OneAdderWins ==
    /\ \A t \in Threads :
          ( /\ threads[t].pc = "done"
            /\ threads[t].op = "add_peer"
            /\ threads[t].error.kind # "DuplicateNonceError" )
          => IF threads[t].held
             THEN threads[t].error = Error("DuplicatePeerError", <<>>)
             ELSE threads[t].error = NoError
    /\ \A i, j \in 1..Len(peers) :
          peers[i].address = peers[j].address => i = j

\* C24: remove_peer(peer) deletes whatever entry is registered under
\* peer.address: when another peer object q with that address is in the map,
\* the call removes q and succeeds, though peer itself is not registered.
C24_RemoveByAddress ==
    \A q \in PeerObjects :
        ( /\ cmLast.op = "remove_peer"
          /\ q \in Range(cmLast.before)
          /\ q.address = cmLast.peer.address
          /\ q # cmLast.peer )
        => /\ q \notin Range(peers)
           /\ cmLast.error = NoError

-----------------------------------------------------------------------------
(* The verifier's attempts.                                                *)

\* The largest settle_index of the stored received payments, 0 when there
\* is none.
StoredSettleIndex ==
    IF Len(receivedPaymentsDb) = 0
    THEN 0
    ELSE CHOOSE m \in 1..Len(settledLog) :
            /\ \E k \in 1..Len(receivedPaymentsDb) :
                  receivedPaymentsDb[k].settle_index = m
            /\ \A k \in 1..Len(receivedPaymentsDb) :
                  receivedPaymentsDb[k].settle_index <= m

\* C25: every attempt of the verifier opens its subscription with the latest
\* settle index that storage holds at that time, 0 when storage holds no
\* received payment; so after an attempt that persisted up to k and failed,
\* the next subscription is opened with settle_index = k.
C25_ResumeFromStored ==
    [][ (verifier.pc = "start" /\ verifier'.pc = "streaming")
        => /\ verifier'.latest_settle_index = StoredSettleIndex
           /\ verifier'.cursor = StoredSettleIndex ]_vars

\* After a failed attempt and its sleep, a subscription was opened at the
\* settle index of the payments persisted so far.
C25_Witness ==
    /\ verifier.pc = "streaming"
    /\ verifier.slept = LND_CONNECT_RETRY_S
    /\ vLast.op = "get_latest_settle_index"
    /\ Len(receivedPaymentsDb) > 0
    /\ verifier.latest_settle_index = Len(receivedPaymentsDb)
    /\ verifier.cursor = verifier.latest_settle_index

\* C26: an error at any step of an attempt never terminates
\* process_subscribed_invoices: the worker never leaves its loop.
C26_NeverTerminates == verifier.pc # "crashed"

\* The payment whose invoice carries the payment hash r_hash.
PaymentIdOf(r_hash) == CHOOSE i \in PaymentIds : PaymentHashOf(i) = r_hash

C29_MissingSentOfferBlocks ==
    /\ ( /\ vLast.op = "verify_sent_offer"
         /\ vLast.invoice.settled
         /\ vLast.error.kind = "AttributeError" )
       => /\ verifier.pc \in {"sleeping", "start"}
          /\ receivedPaymentsDb = vLast.before
          /\ StoredSettleIndex + 1 = vLast.invoice.settle_index
    /\ \A k \in 1..Len(settledLog) :
          ( /\ settledLog[k] \notin sentOfferDb
            /\ \A n \in 1..Len(receivedPaymentsDb) :
                  receivedPaymentsDb[n].settle_index # k )
          => \A n \in 1..Len(receivedPaymentsDb) :
                receivedPaymentsDb[n].settle_index < k

\* The first settled invoice has no SentOffer while the second has one: the
\* worker failed on the first, slept, subscribed again, was given the first
\* again and failed again, with nothing recorded.
C29_Witness ==
    /\ vLast.op = "verify_sent_offer"
    /\ vLast.error.kind = "AttributeError"
    /\ vLast.invoice.settle_index = 1
    /\ Len(settledLog) = 2
    /\ settledLog[1] \notin sentOfferDb
    /\ settledLog[2] \in sentOfferDb
    /\ receivedPaymentsDb = <<>>
    /\ verifier.slept = LND_CONNECT_RETRY_S
    /\ verifier.pc = "sleeping"

\* C28: at-least-once delivery: a settled invoice whose SentOffer is in
\* storage, as are those of the invoices settled before it, is eventually
\* persisted as a received payment, whatever errors interrupt the attempts
\* in between, given a node that keeps delivering and a storage that keeps
\* answering.
C28_AtLeastOnce ==
    \A k \in PaymentIds :
        ( /\ k <= Len(settledLog)
          /\ \A j \in 1..k : settledLog[j] \in sentOfferDb )
        ~> ( \E n \in 1..Len(receivedPaymentsDb) :
                receivedPaymentsDb[n].settle_index = k )

-----------------------------------------------------------------------------
(* The payments of a subscription.                                         *)

-----------------------------------------------------------------------------
(* Offer creation and the addresses of an offer.                           *)

\* C31: offer creation is strict: a create_offer that fails, at add_invoice
\* or at lookup_invoice, returns no SentOffer and leaves nothing behind; in
\* particular the Lightning node holds the invoices it held before, and no
\* other.
C31_StrictCreateOffer ==
    [][ (last'.op = "create_offer" /\ last'.out.error # NoError)
        => /\ Len(last'.out.result) = 0
           /\ sentOffers' = sentOffers
           /\ invoices' = invoices ]_vars

\* C32: package_offer uses the external address it is given and does not
\* ask get_info; given none, it takes host and port from the first URI of
\* get_info().uris; when that list is empty the Offer carries host "" and
\* port 0. In every case squeak_hash, nonce and payment_request are those of
\* the SentOffer.
C32_AddressSelection ==
    last.op = "package_offer"
    => LET offer == last.out.result[1]
           given == last.args.lnd_external_address
           uris == last.args.uris
       IN /\ last.out.error = NoError
          /\ offer.squeak_hash = last.args.sent_offer.squeak_hash
          /\ offer.nonce = last.args.sent_offer.nonce
          /\ offer.payment_request = last.args.sent_offer.payment_request
          /\ IF given # None
             THEN /\ offer.host = given.host
                  /\ offer.port = given.port
                  /\ last.out.calls = <<>>
             ELSE /\ last.out.calls = <<"get_info">>
                  /\ IF Len(uris) = 0
                     THEN offer.host = "" /\ offer.port = 0
                     ELSE /\ offer.host = uris[1].host
                          /\ uris[1].port_str = "9735" => offer.port = 9735
                          /\ uris[1].port_str = "9736" => offer.port = 9736

\* An Offer was packaged with no address given, from a node that lists two
\* URIs with different hosts: it carries the first.
C32_Witness ==
    /\ last.op = "package_offer"
    /\ last.args.lnd_external_address = None
    /\ Len(last.args.uris) = 2
    /\ last.args.uris[1].host # last.args.uris[2].host
    /\ last.out.result[1].host = "10.0.0.1"
    /\ last.out.result[1].port = 9735

\* C33: unpack_offer of an offer whose hash matches returns a ReceivedOffer
\* whose lightning_address.host is the offer's host when that is not empty
\* and the peer's host otherwise, whose lightning_address.port is the
\* offer's port in both cases, whose payment_point is the squeak's own and
\* whose nonce and payment_request are the offer's; it returns it whatever
\* invoice the payment request names, the payment point being compared with
\* nothing before the payment.
C33_UnpackedAddress ==
    ( /\ last.op = "unpack_offer"
      /\ last.args.offer.squeak_hash = get_hash(last.args.squeak) )
    => /\ last.out.error = NoError
       /\ Len(last.out.result) = 1
       /\ LET offer == last.args.offer
              received_offer == last.out.result[1]
          IN /\ received_offer.lightning_address.host =
                    IF offer.host = "" THEN last.args.peer_address.host
                    ELSE offer.host
             /\ received_offer.lightning_address.port = offer.port
             /\ received_offer.payment_point = last.args.squeak.paymentPoint
             /\ received_offer.nonce = offer.nonce
             /\ received_offer.payment_request = offer.payment_request

\* An Offer packaged with no address to be had was unpacked: the buyer will
\* dial the peer's host on port 0.
C33_Witness ==
    /\ last.op = "unpack_offer"
    /\ last.out.error = NoError
    /\ last.args.offer.host = ""
    /\ last.args.offer.port = 0
    /\ last.out.result[1].lightning_address.host = "buyer.example"
    /\ last.out.result[1].lightning_address.port = 0
    /\ last.args.peer_address.port # 0

====
